---- MODULE Spec2Model ----
(***************************************************************************)
(* A model of scripts/unet.py: the BrainSegmentationDataset (volume        *)
(* assembly, sampling weights, patient/slice index, item access, the       *)
(* validation loader), the UNet forward pass as a computation on tensor    *)
(* shapes, the Dice loss as exact rational arithmetic, and the training    *)
(* loop.  Each part has its own specification; the variables of the other  *)
(* parts stay at their idle values.                                        *)
(***************************************************************************)
EXTENDS Integers, Sequences, FiniteSets, TLC

VARIABLES
    \* ---- dataset (SpecData)
    tree,                 \* the directory tree: patient directory -> set of .tif files
    pc,                   \* "start" | "ready" | "failed" (position of the constructor)
    error,                \* the exception that ended construction, or "none"
    assembled,            \* volumes / masks dictionaries after the os.walk loop
    patients,             \* self.patients
    volumes,              \* self.volumes: sequence of [v, m]
    slice_weights,        \* self.slice_weights
    patient_slice_index,  \* self.patient_slice_index
    random_sampling,      \* self.random_sampling
    item,                 \* the last __getitem__ call: [idx, out], or NoItem
    cursor,               \* valid_loader: next index of the sequential sampler
    emitted,              \* valid_loader: the samples emitted so far in this pass
    loader,               \* valid_loader: "idle" | "running" | "done" | "failed"
    \* ---- UNet.forward (SpecUNet)
    model,                \* the UNet: depth, down_path, up_path, last
    input,                \* the shape of forward's argument
    x,                    \* the shape of forward's local x
    blocks,               \* forward's list of skip feature maps
    upos,                 \* "down" | "up" | "done" | "failed" (position in forward)
    stage,                \* the loop variable i of the loop forward is in
    uerr,                 \* the RuntimeError that ended forward, or "none"
    cats,                 \* the concatenations the decoder stages called for
    \* ---- DiceLoss.forward (SpecDice)
    y_pred,               \* the predicted tensor: batch -> channel -> flattened pixels
    y_true,               \* the true mask tensor
    dice,                 \* what forward returned or raised, or NoLoss before the call
    \* ---- the training loop (SpecTrain)
    tpos,                 \* the statement the loop is at
    phases,               \* the list the loop over phases runs through
    len_ds,               \* len(train_ds) = len(valid_ds)
    epoch,                \* loop variable epoch
    phase_i,              \* position in phases
    batch_i,              \* loop variable i of the loop over the loader
    step,                 \* the script's step counter
    params,               \* the number of changes the model's parameters have seen
    grads,                \* the batches whose gradients the .grad fields hold
    opt_steps,            \* calls of optimizer.step()
    evals,                \* batches passed through the model in the valid phase
    tlog                  \* what has been done for the current batch

dataVars == <<tree, pc, error, assembled, patients, volumes, slice_weights,
              patient_slice_index, random_sampling, item, cursor, emitted, loader>>

unetVars == <<model, input, x, blocks, upos, stage, uerr, cats>>

diceVars == <<y_pred, y_true, dice>>

trainVars == <<tpos, phases, len_ds, epoch, phase_i, batch_i, step, params, grads,
               opt_steps, evals, tlog>>

vars == <<dataVars, unetVars, diceVars, trainVars>>

-----------------------------------------------------------------------------
(* Bounds of the model *)

MaxSlices == 5
MaxMismatch == 1
MaxDepth == 5
MaxSize == 18
MaxPixels == 1
MaxItems == 9

\* patient directories (named by their rank in the order sorted() gives them)
Dirs == {1, 2}
\* how the annotated area is spread over the slices of one patient
MaskProfiles == {"empty", "sparse", "dense"}

-----------------------------------------------------------------------------
(* The parts a specification leaves idle *)

NoShape == [n |-> 0, c |-> 0, h |-> 0, w |-> 0]

UNetIdle ==
    /\ model = <<>>
    /\ input = NoShape
    /\ x = NoShape
    /\ blocks = <<>>
    /\ upos = "off"
    /\ stage = 0
    /\ uerr = "none"
    /\ cats = <<>>

NoLoss == [status |-> "none", loss |-> [n |-> 0, d |-> 0]]

DiceIdle ==
    /\ y_pred = <<>>
    /\ y_true = <<>>
    /\ dice = NoLoss

TrainIdle ==
    /\ tpos = "off"
    /\ phases = <<>>
    /\ len_ds = 0
    /\ epoch = 0
    /\ phase_i = 0
    /\ batch_i = 0
    /\ step = 0
    /\ params = 0
    /\ grads = {}
    /\ opt_steps = 0
    /\ evals = 0
    /\ tlog = <<>>

DataIdle ==
    /\ tree = <<>>
    /\ pc = "off"
    /\ error = "none"
    /\ assembled = <<>>
    /\ patients = <<>>
    /\ volumes = <<>>
    /\ slice_weights = <<>>
    /\ patient_slice_index = <<>>
    /\ random_sampling = TRUE
    /\ item = [idx |-> -1, out |-> [status |-> "none", patient |-> -1, slice_n |-> -1]]
    /\ cursor = 0
    /\ emitted = <<>>
    /\ loader = "idle"

otherThanData == <<unetVars, diceVars, trainVars>>
otherThanUNet == <<dataVars, diceVars, trainVars>>
otherThanDice == <<dataVars, unetVars, trainVars>>
otherThanTrain == <<dataVars, unetVars, diceVars>>

-----------------------------------------------------------------------------
(* Python and numpy helpers *)

Range(n) == 0 .. (n - 1)

Min(a, b) == IF a <= b THEN a ELSE b

\* s[1:-1] on a Python list
TrimEnds(s) == IF Len(s) <= 2 THEN <<>> ELSE SubSeq(s, 2, Len(s) - 1)

\* floats, idealised as exact rationals n/d (d > 0); 0/0 is nan, q/0 is inf
RECURSIVE GCD(_, _)
GCD(a, b) == IF b = 0 THEN a ELSE GCD(b, a % b)

\* n/d in lowest terms
Rat(n, d) == IF d <= 0 THEN [n |-> n, d |-> d]
             ELSE [n |-> n \div GCD(n, d), d |-> d \div GCD(n, d)]
NaN == Rat(0, 0)
Inf == Rat(1, 0)
IsNaN(q) == q.d = 0 /\ q.n = 0
IsFinite(q) == q.d > 0

RAdd(q, y) ==
    IF IsNaN(q) \/ IsNaN(y) THEN NaN
    ELSE IF q.d = 0 \/ y.d = 0 THEN Inf
    ELSE Rat(q.n * y.d + y.n * q.d, q.d * y.d)

RMul(q, y) ==
    IF IsNaN(q) \/ IsNaN(y) THEN NaN
    ELSE IF q.d = 0 \/ y.d = 0
         THEN (IF q.n = 0 \/ y.n = 0 THEN NaN ELSE Inf)
    ELSE Rat(q.n * y.n, q.d * y.d)

\* q / y for non-negative operands, as IEEE division: 0/0 = nan, q/0 = inf
RDiv(q, y) ==
    IF IsNaN(q) \/ IsNaN(y) THEN NaN
    ELSE IF q.d = 0 THEN (IF y.d = 0 THEN NaN ELSE Inf)
    ELSE IF y.d = 0 THEN Rat(0, 1)
    ELSE IF y.n = 0 THEN (IF q.n = 0 THEN NaN ELSE Inf)
    ELSE Rat(q.n * y.d, q.d * y.n)

REq(q, y) == IsFinite(q) /\ IsFinite(y) /\ q.n * y.d = y.n * q.d
RPos(q) == IsFinite(q) /\ q.n > 0

RECURSIVE SeqSum(_)
SeqSum(s) == IF s = <<>> THEN 0 ELSE Head(s) + SeqSum(Tail(s))

RECURSIVE RSum(_)
RSum(s) == IF s = <<>> THEN Rat(0, 1) ELSE RAdd(Head(s), RSum(Tail(s)))

RECURSIVE Flatten(_)
Flatten(ss) == IF ss = <<>> THEN <<>> ELSE Head(ss) \o Flatten(Tail(ss))

-----------------------------------------------------------------------------
(* The directory tree *)

ImageFile(i) == [idx |-> i, mask |-> FALSE, sum |-> 0]
MaskFile(i, s) == [idx |-> i, mask |-> TRUE, sum |-> s]

\* the pixel sum of the mask of slice i, as line 85 computes it
MaskSum(profile, i) ==
    CASE profile = "empty"  -> 0
      [] profile = "sparse" -> IF i % 2 = 0 THEN 0 ELSE 3
      [] profile = "dense"  -> i

\* the .tif files of one directory: nImg images and nMask masks
DirFiles(nImg, nMask, profile) ==
    {ImageFile(i) : i \in 1 .. nImg}
        \cup {MaskFile(i, MaskSum(profile, i)) : i \in 1 .. nMask}

MaskCounts(nImg) ==
    {k \in 0 .. MaxSlices : k - nImg <= MaxMismatch /\ nImg - k <= MaxMismatch}

Directories ==
    {DirFiles(c[1], c[2], c[3]) :
        c \in {q \in (0 .. MaxSlices) \X (0 .. MaxSlices) \X MaskProfiles :
                  q[2] \in MaskCounts(q[1])}}

\* sorted(filenames, key = slice index): images before masks on equal keys
Before(f, g) == f.idx < g.idx \/ (f.idx = g.idx /\ ~f.mask /\ g.mask)

RECURSIVE SortedFiles(_)
SortedFiles(files) ==
    IF files = {} THEN <<>>
    ELSE LET f == CHOOSE q \in files : \A y \in files \ {q} : Before(q, y)
         IN  <<f>> \o SortedFiles(files \ {f})

\* lines 55-63: the two lists the loop over the sorted files appends to
ImageSlices(files) == SelectSeq(SortedFiles(files), LAMBDA f : ~f.mask)
MaskSlices(files) == SelectSeq(SortedFiles(files), LAMBDA f : f.mask)

\* lines 64-67: the entry of volumes / masks for one directory
AssembleDir(files) ==
    [v |-> TrimEnds(ImageSlices(files)), m |-> TrimEnds(MaskSlices(files))]

\* lines 52-67: directories without an image slice are skipped
Assemble(t) ==
    [d \in {q \in DOMAIN t : Len(ImageSlices(t[q])) > 0} |-> AssembleDir(t[d])]

\* sorted(volumes)
RECURSIVE SortedKeys(_)
SortedKeys(S) ==
    IF S = {} THEN <<>>
    ELSE LET k == CHOOSE q \in S : \A y \in S : q <= y
         IN  <<k>> \o SortedKeys(S \ {k})

-----------------------------------------------------------------------------
(* BrainSegmentationDataset.__init__ *)

\* crop_sample, pad_sample, resize_sample, normalize_volume: per-slice stages that
\* keep the slice axis of both arrays; a volume without any image slice has no
\* bounding box to crop to, and the construction aborts
PreprocessOutcomes(vol) ==
    IF vol.v = <<>> THEN {"raise"} ELSE {"pass"}

\* line 85: m.sum(axis=-1).sum(axis=-1), one number per mask slice
SliceSums(vol) == [k \in 1 .. Len(vol.m) |-> vol.m[k].sum]

\* lines 86-88: (s + (s.sum() * 0.1 / len(s))) / (s.sum() * 1.1)
SliceWeights(s) ==
    LET total  == Rat(SeqSum(s), 1)
        smooth == RDiv(RMul(total, Rat(1, 10)), Rat(Len(s), 1))
        denom  == RMul(total, Rat(11, 10))
    IN  [k \in 1 .. Len(s) |-> RDiv(RAdd(Rat(s[k], 1), smooth), denom)]

Repeat(q, n) == [k \in 1 .. n |-> q]
RangeSeq(n) == [k \in 1 .. n |-> k - 1]
Zip(a, b) == [k \in 1 .. Min(Len(a), Len(b)) |-> <<a[k], b[k]>>]

\* lines 93-99: the global index idx -> (p_idx, s_idx)
PatientSliceIndex(vols) ==
    LET num_slices == [i \in 1 .. Len(vols) |-> Len(vols[i].v)]
    IN  Zip(Flatten([i \in 1 .. Len(vols) |-> Repeat(i - 1, num_slices[i])]),
            Flatten([i \in 1 .. Len(vols) |-> RangeSeq(num_slices[i])]))

NoItem == [idx |-> -1, out |-> [status |-> "none", patient |-> -1, slice_n |-> -1]]

ConstructFails(asm, why) ==
    /\ pc' = "failed"
    /\ error' = why
    /\ assembled' = asm
    /\ UNCHANGED <<tree, patients, volumes, slice_weights, patient_slice_index,
                   random_sampling, item, cursor, emitted, loader>>
    /\ UNCHANGED otherThanData

\* lines 42-101, the whole constructor
Construct(rs) ==
    /\ pc = "start"
    /\ LET asm  == Assemble(tree)
           pats == SortedKeys(DOMAIN asm)
           vols == [i \in 1 .. Len(pats) |-> asm[pats[i]]]
       IN  \/ /\ \E i \in 1 .. Len(vols) : "raise" \in PreprocessOutcomes(vols[i])
              /\ ConstructFails(asm, "PreprocessError")
           \/ /\ \A i \in 1 .. Len(vols) : "pass" \in PreprocessOutcomes(vols[i])
              /\ \E i \in 1 .. Len(vols) : vols[i].m = <<>>
              \* a mask array without slices sums to a scalar, and len(s) raises
              /\ ConstructFails(asm, "TypeError")
           \/ /\ \A i \in 1 .. Len(vols) : "pass" \in PreprocessOutcomes(vols[i])
              /\ \A i \in 1 .. Len(vols) : vols[i].m # <<>>
              /\ pc' = "ready"
              /\ assembled' = asm
              /\ patients' = pats
              /\ volumes' = vols
              /\ slice_weights' = [i \in 1 .. Len(vols) |-> SliceWeights(SliceSums(vols[i]))]
              /\ patient_slice_index' = PatientSliceIndex(vols)
              /\ random_sampling' = rs
              /\ UNCHANGED <<tree, error, item, cursor, emitted, loader>>
              /\ UNCHANGED otherThanData

\* __len__
DatasetLen == Len(patient_slice_index)

-----------------------------------------------------------------------------
(* BrainSegmentationDataset.__getitem__ *)

Sample(patient, slice_n) ==
    [status |-> "ok", patient |-> patient, slice_n |-> slice_n]
Raised(what, patient) ==
    [status |-> what, patient |-> patient, slice_n |-> -1]

\* np.random.choice raising ValueError (no slice number)
ChoiceRaises == -1

\* lines 109-111: np.random.choice(range(n), p = weights)
ChoiceOutcomes(n, p) ==
    IF n = 0 \/ Len(p) # n \/ (\E k \in 1 .. Len(p) : ~IsFinite(p[k]))
       \/ ~REq(RSum(p), Rat(1, 1))
    THEN {ChoiceRaises}
    ELSE {s \in Range(n) : RPos(p[s + 1])}

\* lines 112-114: v[slice_n], m[slice_n]
Fetch(patient, slice_n) ==
    LET vol == volumes[patient + 1]
    IN  IF slice_n >= Len(vol.v) \/ slice_n >= Len(vol.m)
        THEN Raised("IndexError", patient)
        ELSE Sample(patient, slice_n)

\* the access with the random draw left out
GetItemOutcomes_NoDraw(idx) ==
    {Fetch(patient_slice_index[idx + 1][1], patient_slice_index[idx + 1][2])}

\* lines 104-114: every result the call can have for this idx
GetItemOutcomes(idx) ==
    LET patient == patient_slice_index[idx + 1][1]
        slice_n == patient_slice_index[idx + 1][2]
    IN  IF random_sampling
        THEN UNION {{IF c = ChoiceRaises THEN Raised("ValueError", p) ELSE Fetch(p, c) :
                        c \in ChoiceOutcomes(Len(volumes[p + 1].v), slice_weights[p + 1])} :
                    p \in Range(Len(volumes))}
        ELSE {Fetch(patient, slice_n)}

GetItem(idx) ==
    /\ pc = "ready"
    /\ loader = "idle"
    /\ idx \in Range(DatasetLen)
    /\ \E o \in GetItemOutcomes(idx) : item' = [idx |-> idx, out |-> o]
    /\ UNCHANGED <<tree, pc, error, assembled, patients, volumes, slice_weights,
                   patient_slice_index, random_sampling, cursor, emitted, loader>>
    /\ UNCHANGED otherThanData

-----------------------------------------------------------------------------
(* valid_loader: sequential batches over valid_ds, drop_last = False *)

batch_size == 4

\* one batch: the next batch_size indices (fewer at the end), each through __getitem__
LoaderBatch ==
    /\ pc = "ready"
    /\ ~random_sampling
    /\ item = NoItem
    /\ loader \in {"idle", "running"}
    /\ LET last == Min(cursor + batch_size, DatasetLen)
           idxs == [k \in 1 .. (last - cursor) |-> cursor + k - 1]
           outs == [k \in 1 .. Len(idxs) |-> CHOOSE o \in GetItemOutcomes(idxs[k]) : TRUE]
       IN  IF cursor >= DatasetLen
           THEN /\ loader' = "done"
                /\ UNCHANGED <<cursor, emitted>>
           ELSE IF \E k \in 1 .. Len(outs) : outs[k].status # "ok"
           THEN /\ loader' = "failed"
                /\ UNCHANGED <<cursor, emitted>>
           ELSE /\ loader' = "running"
                /\ cursor' = last
                /\ emitted' = emitted \o outs
    /\ UNCHANGED <<tree, pc, error, assembled, patients, volumes, slice_weights,
                   patient_slice_index, random_sampling, item>>
    /\ UNCHANGED otherThanData

-----------------------------------------------------------------------------
(* The dataset specification *)

InitData ==
    /\ UNetIdle /\ DiceIdle /\ TrainIdle
    /\ tree \in [Dirs -> Directories]
    /\ pc = "start"
    /\ error = "none"
    /\ assembled = <<>>
    /\ patients = <<>>
    /\ volumes = <<>>
    /\ slice_weights = <<>>
    /\ patient_slice_index = <<>>
    /\ random_sampling = TRUE
    /\ item = NoItem
    /\ cursor = 0
    /\ emitted = <<>>
    /\ loader = "idle"

NextData ==
    \/ \E rs \in BOOLEAN : Construct(rs)
    \/ \E idx \in Range(DatasetLen) : GetItem(idx)
    \/ LoaderBatch

SpecData == InitData /\ [][NextData]_vars

-----------------------------------------------------------------------------
(* UNet, ConvBlock, UpBlock: the forward pass on tensor shapes (N, C, H, W) *)

channels_in == 3
channels_out == 1
n_filters == 6
image_size == 256

Shape(n, c, h, w) == [n |-> n, c |-> c, h |-> h, w |-> w]

\* the result of a layer: a tensor shape, or the error it raised
Ok(t) == [err |-> "none", t |-> t]
Err(what) == [err |-> what, t |-> NoShape]

\* nn.Conv2d(in_size, out_size, kernel_size = k, padding = p)
Conv2d(in_size, out_size, k, p, t) ==
    IF t.c # in_size THEN Err("channels")
    ELSE Ok(Shape(t.n, out_size, t.h + 2 * p - k + 1, t.w + 2 * p - k + 1))

\* nn.ConvTranspose2d(in_size, out_size, kernel_size = k, stride = s)
ConvTranspose2d(in_size, out_size, k, s, t) ==
    IF t.c # in_size THEN Err("channels")
    ELSE Ok(Shape(t.n, out_size, (t.h - 1) * s + k, (t.w - 1) * s + k))

\* max_pool2d with the output size rounded up (ceil_mode = True)
max_pool2d_Ceil(t, k) ==
    Ok(Shape(t.n, t.c, (t.h + k - 1) \div k, (t.w + k - 1) \div k))

\* F.max_pool2d(x, k): an output without pixels is an error
max_pool2d(t, k) ==
    LET h == (t.h - k) \div k + 1
        w == (t.w - k) \div k + 1
    IN  IF h <= 0 \/ w <= 0 THEN Err("pool") ELSE Ok(Shape(t.n, t.c, h, w))

\* torch.cat([a, b], 1): all sizes but the channels' must agree
cat(a, b) ==
    IF a.n # b.n \/ a.h # b.h \/ a.w # b.w THEN Err("cat")
    ELSE Ok(Shape(a.n, a.c + b.c, a.h, a.w))

\* lines 197-208
ConvBlock(in_size, out_size) == [in_size |-> in_size, out_size |-> out_size]
ConvBlockForward(b, t) ==
    LET first == Conv2d(b.in_size, b.out_size, 3, 1, t)
    IN  IF first.err # "none" THEN first
        ELSE Conv2d(b.out_size, b.out_size, 3, 1, first.t)

\* lines 210-223
UpBlock(in_size, out_size) == [in_size |-> in_size, out_size |-> out_size]
UpBlockUp(b, t) == ConvTranspose2d(b.in_size, b.out_size, 2, 2, t)
UpBlockForward(b, t, bridge) ==
    LET up  == UpBlockUp(b, t)
        out == cat(up.t, bridge)
    IN  IF up.err # "none" THEN up
        ELSE IF out.err # "none" THEN out
        ELSE ConvBlockForward(ConvBlock(b.in_size, b.out_size), out.t)

\* lines 171-175: the encoder blocks from stage i on
RECURSIVE DownPath(_, _, _)
DownPath(i, depth, prev_channels) ==
    IF i >= depth THEN <<>>
    ELSE <<ConvBlock(prev_channels, 2 ^ (n_filters + i))>>
             \o DownPath(i + 1, depth, 2 ^ (n_filters + i))

\* prev_channels after a list of blocks
LastChannels(path, prev_channels) ==
    IF path = <<>> THEN prev_channels ELSE path[Len(path)].out_size

\* lines 177-181: the decoder blocks for i = depth - 2 down to 0
RECURSIVE UpPath(_, _)
UpPath(i, prev_channels) ==
    IF i < 0 THEN <<>>
    ELSE <<UpBlock(prev_channels, 2 ^ (n_filters + i))>>
             \o UpPath(i - 1, 2 ^ (n_filters + i))

\* lines 160-182
UNetInit(depth) ==
    LET down == DownPath(0, depth, channels_in)
        up   == UpPath(depth - 2, LastChannels(down, channels_in))
    IN  [depth     |-> depth,
         down_path |-> down,
         up_path   |-> up,
         last      |-> [in_size  |-> LastChannels(up, LastChannels(down, channels_in)),
                        out_size |-> channels_out]]

ForwardFails(what) ==
    /\ upos' = "failed"
    /\ uerr' = what
    /\ UNCHANGED <<model, input, x, stage>>

\* lines 185-191: one turn of the loop over down_path
UNetDown ==
    /\ upos = "down"
    /\ stage < Len(model.down_path)
    /\ LET r == ConvBlockForward(model.down_path[stage + 1], x)
           p == max_pool2d(r.t, 2)
       IN  IF r.err # "none"
           THEN ForwardFails(r.err) /\ UNCHANGED blocks
           ELSE IF stage # Len(model.down_path) - 1
           THEN /\ blocks' = Append(blocks, [t |-> r.t, stage |-> stage])
                /\ IF p.err # "none"
                   THEN ForwardFails(p.err)
                   ELSE /\ x' = p.t
                        /\ stage' = stage + 1
                        /\ UNCHANGED <<model, input, upos, uerr>>
           ELSE /\ x' = r.t
                /\ upos' = "up"
                /\ stage' = 0
                /\ UNCHANGED <<model, input, blocks, uerr>>
    /\ UNCHANGED cats
    /\ UNCHANGED otherThanUNet

\* blocks[-i - 1] with the order of the skips kept as they were stored
Bridge_Forward(blks, i) == blks[i + 1]

\* blocks[-i - 1]
Bridge(blks, i) == blks[Len(blks) - i]

\* lines 192-194: one turn of the loop over up_path
UNetUp ==
    /\ upos = "up"
    /\ stage < Len(model.up_path)
    /\ LET b      == model.up_path[stage + 1]
           bridge == Bridge(blocks, stage)
           up     == UpBlockUp(b, x)
           r      == UpBlockForward(b, x, bridge.t)
       IN  /\ cats' = IF up.err # "none" THEN cats
                      ELSE Append(cats, [stage |-> stage, skip |-> bridge.stage,
                                         up |-> up.t, bridge |-> bridge.t])
           /\ IF r.err # "none"
              THEN ForwardFails(r.err)
              ELSE /\ x' = r.t
                   /\ stage' = stage + 1
                   /\ UNCHANGED <<model, input, upos, uerr>>
    /\ UNCHANGED blocks
    /\ UNCHANGED otherThanUNet

\* line 195: return self.last(x)
UNetLast ==
    /\ upos = "up"
    /\ stage = Len(model.up_path)
    /\ LET r == Conv2d(model.last.in_size, model.last.out_size, 1, 0, x)
       IN  IF r.err # "none"
           THEN ForwardFails(r.err)
           ELSE /\ x' = r.t
                /\ upos' = "done"
                /\ UNCHANGED <<model, input, stage, uerr>>
    /\ UNCHANGED <<blocks, cats>>
    /\ UNCHANGED otherThanUNet

Sizes == (1 .. MaxSize) \cup {image_size}
BatchSizes == {1, batch_size}
\* a batch of dataset images has in_channels channels; a gray image has one
InputChannels == {1, channels_in}

InitUNet ==
    /\ DataIdle /\ DiceIdle /\ TrainIdle
    /\ \E depth \in 1 .. MaxDepth : model = UNetInit(depth)
    /\ input \in {Shape(n, c, h, w) : n \in BatchSizes, c \in InputChannels,
                                      h \in Sizes, w \in Sizes}
    /\ x = input
    /\ blocks = <<>>
    /\ upos = "down"
    /\ stage = 0
    /\ uerr = "none"
    /\ cats = <<>>

NextUNet == UNetDown \/ UNetUp \/ UNetLast

SpecUNet == InitUNet /\ [][NextUNet]_vars

-----------------------------------------------------------------------------
(* Claims about the forward pass, checked under SpecUNet *)

\* H and W of the input are divisible by 2^(depth - 1)
Divisible ==
    /\ input.h % (2 ^ (model.depth - 1)) = 0
    /\ input.w % (2 ^ (model.depth - 1)) = 0

\* C6 as the spec states it: on (N, 3, H, W) with H and W divisible by
\* 2^(depth - 1) the pass succeeds with an output of shape (N, 1, H, W); with H or
\* W not divisible the pass fails with a shape mismatch at a skip concatenation.
C6_ForwardShape_Original ==
    (upos # "off" /\ input.c = channels_in) =>
        /\ Divisible =>
              /\ upos # "failed"
              /\ upos = "done" => x = Shape(input.n, channels_out, input.h, input.w)
        /\ ~Divisible =>
              /\ upos # "done"
              /\ upos = "failed" => uerr = "cat"

\* H or W is too small for the depth - 1 poolings
TooSmall ==
    \/ input.h < 2 ^ (model.depth - 1)
    \/ input.w < 2 ^ (model.depth - 1)

\* C6 (amended): as above, but with H or W not divisible the pass fails at a skip
\* concatenation only if H and W are at least 2^(depth - 1); with H or W below
\* 2^(depth - 1) it fails earlier, in a max-pooling whose output would be empty.
\* A pass that has not ended can always take its next step.
C6_ForwardShape ==
    (upos # "off" /\ input.c = channels_in) =>
        /\ Divisible =>
              /\ upos # "failed"
              /\ upos = "done" => x = Shape(input.n, channels_out, input.h, input.w)
        /\ ~Divisible =>
              /\ upos # "done"
              /\ upos = "failed" => uerr = (IF TooSmall THEN "pool" ELSE "cat")
        /\ upos \in {"down", "up"} => ENABLED NextUNet

\* the pass on (N, 3, 256, 256) with depth 5 has returned
C6_Witness ==
    /\ upos = "done"
    /\ model.depth = 5
    /\ input.c = channels_in /\ input.h = image_size /\ input.w = image_size
    /\ x = Shape(input.n, channels_out, image_size, image_size)

\* C9: depth - 1 skips are stored, one by each encoder stage but the last; decoder
\* stage j is concatenated with the skip of encoder stage depth - 2 - j, whose
\* channel count equals the upsampled tensor's, and whose spatial size equals it
\* in every concatenation that is carried out (all of them, when H and W are
\* divisible by 2^(depth - 1)); a pass that returns has consumed every skip once.
C9_SkipsInReverse ==
    upos # "off" =>
        /\ \A k \in 1 .. Len(blocks) : blocks[k].stage = k - 1
        /\ Len(blocks) <= model.depth - 1
        /\ upos \in {"up", "done"} => Len(blocks) = model.depth - 1
        /\ \A k \in 1 .. Len(cats) :
              /\ cats[k].stage = k - 1
              /\ cats[k].skip = model.depth - 2 - (k - 1)
              /\ cats[k].up.c = cats[k].bridge.c
              /\ (Divisible \/ k < Len(cats) \/ upos # "failed") =>
                    /\ cats[k].up.h = cats[k].bridge.h
                    /\ cats[k].up.w = cats[k].bridge.w
        /\ upos = "done" => Len(cats) = model.depth - 1

\* a pass of depth 3 or more has returned, all of its skips consumed
C9_Witness ==
    /\ upos = "done"
    /\ model.depth >= 3
    /\ Len(cats) = model.depth - 1
    /\ cats[1].skip = model.depth - 2
    /\ cats[Len(cats)].skip = 0

-----------------------------------------------------------------------------
(* DiceLoss.forward, on tensors batch -> channel -> flattened pixels *)

smooth == 1

RSub(a, b) == Rat(a.n * b.d - b.n * a.d, a.d * b.d)

TensorsOf(n, c, px, vals) == [1 .. n -> [1 .. c -> [1 .. px -> vals]]]

\* y.size()
Size(y) == <<Len(y), Len(y[1]), Len(y[1][1])>>

\* y[:, 0].contiguous().view(-1): the first channel of every batch element
FirstChannel(y) == Flatten([b \in 1 .. Len(y) |-> y[b][1]])

\* (a * b).sum()
DotSum(a, b) == SeqSum([k \in 1 .. Len(a) |-> a[k] * b[k]])

\* the Dice coefficient with the factor 2 of the intersection left out
Dsc_NoDouble(intersection, sum_pred, sum_true) ==
    Rat(intersection + smooth, sum_pred + sum_true + smooth)

\* lines 239-241: (2. * intersection + smooth) / (y_pred.sum() + y_true.sum() + smooth)
Dsc(intersection, sum_pred, sum_true) ==
    RDiv(Rat(2 * intersection + smooth, 1), Rat(sum_pred + sum_true + smooth, 1))

\* lines 234-242
DiceLossForward(pred, true) ==
    IF Size(pred) # Size(true)
    THEN [status |-> "AssertionError", loss |-> NaN]
    ELSE LET p == FirstChannel(pred)
             t == FirstChannel(true)
         IN  [status |-> "ok",
              loss   |-> RSub(Rat(1, 1), Dsc(DotSum(p, t), SeqSum(p), SeqSum(t)))]

\* dsc_loss(y_pred, y_true)
DiceCall ==
    /\ dice = NoLoss
    /\ y_pred # <<>>
    /\ dice' = DiceLossForward(y_pred, y_true)
    /\ UNCHANGED <<y_pred, y_true>>
    /\ UNCHANGED otherThanDice

\* 8x8 masks of one batch element and one channel: all ones, all zeros, the left
\* half and the right half
Masks8x8 ==
    {<< <<[k \in 1 .. 64 |-> 1]>> >>,
     << <<[k \in 1 .. 64 |-> 0]>> >>,
     << <<[k \in 1 .. 64 |-> IF (k - 1) % 8 < 4 THEN 1 ELSE 0]>> >>,
     << <<[k \in 1 .. 64 |-> IF (k - 1) % 8 < 4 THEN 0 ELSE 1]>> >>}

BinaryTensors ==
    Masks8x8 \cup
    UNION {TensorsOf(s[1], s[2], s[3], {0, 1}) :
              s \in (1 .. 2) \X (1 .. 2) \X (1 .. MaxPixels)}

InitDice ==
    /\ DataIdle /\ UNetIdle /\ TrainIdle
    /\ y_pred \in BinaryTensors
    /\ y_true \in BinaryTensors
    /\ dice = NoLoss

NextDice == DiceCall

SpecDice == InitDice /\ [][NextDice]_vars

-----------------------------------------------------------------------------
(* Claims about the Dice loss, checked under SpecDice *)

Positives(y) == {k \in 1 .. Len(FirstChannel(y)) : FirstChannel(y)[k] = 1}
SumPred == Cardinality(Positives(y_pred))
SumTrue == Cardinality(Positives(y_true))
Overlap == Cardinality(Positives(y_pred) \cap Positives(y_true))
AllOnes8x8 == << <<[k \in 1 .. 64 |-> 1]>> >>

\* the loss is within 1/10 of 1
NearOne(l) == IsFinite(l) /\ 10 * l.n >= 9 * l.d

\* C7 as the spec states it: the loss is 1 - (2*sum(pred*true) + 1) / (sum(pred)
\* + sum(true) + 1) over the first channel; it is 0 for identical all-ones 8x8
\* masks, and approximately 1 for fully disjoint binary masks.
C7_DiceValues_Original ==
    dice.status = "ok" =>
        /\ REq(RMul(dice.loss, Rat(SumPred + SumTrue + 1, 1)),
               Rat(SumPred + SumTrue - 2 * Overlap, 1))
        /\ (y_pred = AllOnes8x8 /\ y_true = AllOnes8x8) => REq(dice.loss, Rat(0, 1))
        /\ Overlap = 0 => NearOne(dice.loss)

\* C7 (amended): the formula and the all-ones case as above; for fully disjoint
\* binary masks the loss is 1 - 1 / (sum(pred) + sum(true) + 1), which is within
\* 1/10 of 1 exactly when the two masks have at least 9 positive pixels together,
\* and is 0 when both masks are empty.
C7_DiceValues ==
    dice.status = "ok" =>
        /\ REq(RMul(dice.loss, Rat(SumPred + SumTrue + 1, 1)),
               Rat(SumPred + SumTrue - 2 * Overlap, 1))
        /\ (y_pred = AllOnes8x8 /\ y_true = AllOnes8x8) => REq(dice.loss, Rat(0, 1))
        /\ Overlap = 0 =>
              /\ REq(dice.loss, Rat(SumPred + SumTrue, SumPred + SumTrue + 1))
              /\ NearOne(dice.loss) <=> SumPred + SumTrue >= 9
              /\ (SumPred = 0 /\ SumTrue = 0) => REq(dice.loss, Rat(0, 1))

\* the loss of two complementary 8x8 half masks has been computed
C7_Witness ==
    /\ dice.status = "ok"
    /\ y_pred \in Masks8x8 /\ y_true \in Masks8x8
    /\ Overlap = 0 /\ SumPred = 32 /\ SumTrue = 32
    /\ REq(dice.loss, Rat(64, 65))

-----------------------------------------------------------------------------
(* The training loop, lines 248-267 *)

num_epochs == 1

\* line 254 runs the train phase only; line 253 has both phases
PhaseLists == {<<"train">>, <<"train", "valid">>}

\* len(dataloaders[phase]): train_loader drops the last partial batch, valid_loader keeps it
NumBatches(phase) ==
    IF phase = "train" THEN len_ds \div batch_size
    ELSE (len_ds + batch_size - 1) \div batch_size

Phase == phases[phase_i + 1]
Batch == <<epoch, Phase, batch_i>>

\* the branch after the loss with the test of the phase left out
AfterLoss_Always(phase) == "backward"

\* lines 265-267: backward and optimizer step in the train phase only
AfterLoss(phase) == IF phase = "train" THEN "backward" ELSE "batch"

\* lines 250-256: the heads of the loops over epochs and phases
PhaseBegin ==
    /\ tpos = "phase"
    /\ IF phase_i < Len(phases)
       THEN /\ tpos' = "batch"
            /\ batch_i' = 0
            /\ UNCHANGED <<epoch, phase_i>>
       ELSE IF epoch + 1 < num_epochs
       THEN /\ epoch' = epoch + 1
            /\ phase_i' = 0
            /\ UNCHANGED <<tpos, batch_i>>
       ELSE /\ tpos' = "done"
            /\ UNCHANGED <<epoch, phase_i, batch_i>>
    /\ UNCHANGED <<phases, len_ds, step, params, grads, opt_steps, evals, tlog>>
    /\ UNCHANGED otherThanTrain

\* lines 257-260: the loader yields the next batch, raises, or is exhausted
NextBatch ==
    /\ tpos = "batch"
    /\ IF batch_i < NumBatches(Phase)
       THEN \/ /\ tpos' = "zero_grad"
               /\ step' = IF Phase = "train" THEN step + 1 ELSE step
               /\ tlog' = <<>>
               /\ UNCHANGED <<phase_i>>
            \/ /\ tpos' = "aborted"
               /\ UNCHANGED <<step, tlog, phase_i>>
       ELSE /\ tpos' = "phase"
            /\ phase_i' = phase_i + 1
            /\ UNCHANGED <<step, tlog>>
    /\ UNCHANGED <<phases, len_ds, epoch, batch_i, params, grads, opt_steps, evals>>
    /\ UNCHANGED otherThanTrain

\* line 261: optimizer.zero_grad()
ZeroGrad ==
    /\ tpos = "zero_grad"
    /\ grads' = {}
    /\ tlog' = Append(tlog, "zero_grad")
    /\ tpos' = "forward"
    /\ UNCHANGED <<phases, len_ds, epoch, phase_i, batch_i, step, params, opt_steps, evals>>
    /\ UNCHANGED otherThanTrain

\* lines 262-263: y_pred = model(x)
Forward ==
    /\ tpos = "forward"
    /\ tlog' = Append(tlog, "forward")
    /\ evals' = IF Phase = "train" THEN evals ELSE evals + 1
    /\ tpos' = "loss"
    /\ UNCHANGED <<phases, len_ds, epoch, phase_i, batch_i, step, params, grads, opt_steps>>
    /\ UNCHANGED otherThanTrain

\* lines 264-265: loss = dsc_loss(y_pred, y_true), then the test of the phase
Loss ==
    /\ tpos = "loss"
    /\ tlog' = Append(tlog, "loss")
    /\ tpos' = AfterLoss(Phase)
    /\ batch_i' = IF AfterLoss(Phase) = "batch" THEN batch_i + 1 ELSE batch_i
    /\ UNCHANGED <<phases, len_ds, epoch, phase_i, step, params, grads, opt_steps, evals>>
    /\ UNCHANGED otherThanTrain

\* line 266: loss.backward() adds this batch's gradients to the .grad fields
Backward ==
    /\ tpos = "backward"
    /\ grads' = grads \cup {Batch}
    /\ tlog' = Append(tlog, "backward")
    /\ tpos' = "opt_step"
    /\ UNCHANGED <<phases, len_ds, epoch, phase_i, batch_i, step, params, opt_steps, evals>>
    /\ UNCHANGED otherThanTrain

\* line 267: optimizer.step()
OptimizerStep ==
    /\ tpos = "opt_step"
    /\ params' = params + 1
    /\ opt_steps' = opt_steps + 1
    /\ tlog' = Append(tlog, "step")
    /\ tpos' = "batch"
    /\ batch_i' = batch_i + 1
    /\ UNCHANGED <<phases, len_ds, epoch, phase_i, step, grads, evals>>
    /\ UNCHANGED otherThanTrain

InitTrain ==
    /\ DataIdle /\ UNetIdle /\ DiceIdle
    /\ tpos = "phase"
    /\ phases \in PhaseLists
    /\ len_ds \in 0 .. MaxItems
    /\ epoch = 0
    /\ phase_i = 0
    /\ batch_i = 0
    /\ step = 0
    /\ params = 0
    /\ grads = {}
    /\ opt_steps = 0
    /\ evals = 0
    /\ tlog = <<>>

NextTrain ==
    \/ PhaseBegin
    \/ NextBatch
    \/ ZeroGrad
    \/ Forward
    \/ Loss
    \/ Backward
    \/ OptimizerStep

SpecTrain == InitTrain /\ [][NextTrain]_vars

-----------------------------------------------------------------------------
(* Claims about the training loop, checked under SpecTrain *)

TrainOrder == <<"zero_grad", "forward", "loss", "backward", "step">>
IsPrefix(s, u) == Len(s) <= Len(u) /\ s = SubSeq(u, 1, Len(s))
InBatch == tpos \in {"zero_grad", "forward", "loss", "backward", "opt_step"}

\* what holds in every state of the loop
C10_State ==
    tpos # "off" =>
        /\ IsPrefix(tlog, TrainOrder)
        /\ (InBatch /\ Phase = "valid") => IsPrefix(tlog, <<"zero_grad", "forward", "loss">>)
        /\ params = opt_steps
        /\ tpos \in {"batch", "phase", "done", "aborted"} => step = opt_steps
        /\ InBatch => step = opt_steps + (IF Phase = "train" THEN 1 ELSE 0)
        /\ tpos \in {"forward", "loss", "backward", "opt_step"} => grads \subseteq {Batch}
        /\ Cardinality(grads) <= 1

\* what holds of every step of the loop
C10_Step ==
    /\ params' # params =>
          /\ tpos = "opt_step" /\ Phase = "train"
          /\ tlog = <<"zero_grad", "forward", "loss", "backward">>
          /\ grads = {Batch}
          /\ params' = params + 1
    /\ (InBatch /\ Phase = "valid") =>
          /\ params' = params /\ opt_steps' = opt_steps /\ step' = step
          /\ tpos' \notin {"backward", "opt_step"}
    /\ (InBatch /\ Phase = "train" /\ batch_i' # batch_i) => tlog' = TrainOrder

\* C10: in a batch of the train phase the steps are zero gradients, forward, Dice
\* loss, backward, optimizer step, in this order, with one optimizer step for the
\* batch and only this batch's gradients in it; the parameters change at that
\* step only; a batch of the valid phase has no backward pass and no optimizer
\* step; at the end the step counter is the number of optimizer steps.
C10_TrainingLoop == [](C10_State) /\ [][C10_Step]_vars

\* the loop has ended after two or more optimizer steps and a valid batch
C10_Witness ==
    /\ tpos = "done"
    /\ opt_steps >= 2
    /\ step = opt_steps
    /\ evals >= 1

-----------------------------------------------------------------------------
(* Claims about the dataset, checked under SpecData *)

ImageCount(d) == Cardinality({f \in tree[d] : ~f.mask})
MaskCount(d) == Cardinality({f \in tree[d] : f.mask})

\* C1: after construction the sampling weights of every patient add up to 1,
\* also for a patient whose mask is zero in every slice.
C1_WeightsSumToOne ==
    pc = "ready" =>
        \A p \in 1 .. Len(slice_weights) : REq(RSum(slice_weights[p]), Rat(1, 1))

\* C2: for every directory assembled into a volume, the image slices kept and the
\* mask slices kept are equally many, and as many as the original slices minus 2
\* (stated for the directories of at least two slices, whose first and last slice
\* are two slices).
C2_KeptSliceCounts ==
    pc # "start" =>
        \A d \in DOMAIN assembled :
            ImageCount(d) >= 2 =>
                /\ Len(assembled[d].v) = Len(assembled[d].m)
                /\ Len(assembled[d].v) = ImageCount(d) - 2

\* C3: a directory with different numbers of image and mask files makes the
\* construction abort; it never completes with such a patient, nor drops it.
C3_MismatchAborts ==
    /\ pc # "start" =>
          \A d \in Dirs :
              (ImageCount(d) > 0 /\ ImageCount(d) # MaskCount(d)) => pc = "failed"
    /\ pc = "ready" =>
          /\ \A p \in 1 .. Len(volumes) : Len(volumes[p].v) = Len(volumes[p].m)
          /\ \A d \in Dirs : ImageCount(d) > 0 => \E p \in 1 .. Len(patients) : patients[p] = d

\* all (patient, slice) pairs of the dataset, in patient order then slice order
AllPairs ==
    Flatten([p \in 1 .. Len(volumes) |->
                [s \in 1 .. Len(volumes[p].v) |-> <<p - 1, s - 1>>]])

\* C4: in deterministic mode patient_slice_index lists every (patient, slice) pair
\* once, in patient order then slice order, __getitem__(i) returns the slice at
\* patient_slice_index[i], and one pass of the validation loader emits every slice
\* of every patient exactly once.
C4_DeterministicPass ==
    (pc = "ready" /\ ~random_sampling) =>
        /\ patient_slice_index = AllPairs
        /\ item # NoItem =>
              item.out = Sample(patient_slice_index[item.idx + 1][1],
                                patient_slice_index[item.idx + 1][2])
        /\ loader # "failed"
        /\ loader = "done" =>
              emitted = [k \in 1 .. Len(AllPairs) |-> Sample(AllPairs[k][1], AllPairs[k][2])]

\* the weights of patient p are a distribution over the slices of its volume
ValidWeights(p) ==
    /\ Len(slice_weights[p + 1]) = Len(volumes[p + 1].v)
    /\ \A k \in 1 .. Len(slice_weights[p + 1]) : IsFinite(slice_weights[p + 1][k])
    /\ REq(RSum(slice_weights[p + 1]), Rat(1, 1))

\* C5: in weighted-random mode the outcome of __getitem__(idx) does not depend on
\* idx: for every valid idx the possible outcomes are the same, any patient can be
\* drawn, and a returned slice is a slice of the drawn patient's volume with a
\* positive weight (every such slice can be returned), never one outside it.
C5_RandomIgnoresIdx ==
    (pc = "ready" /\ random_sampling) =>
        /\ \A i, j \in Range(DatasetLen) : GetItemOutcomes(i) = GetItemOutcomes(j)
        /\ \A i \in Range(DatasetLen) :
              /\ {o.patient : o \in GetItemOutcomes(i)} = Range(Len(volumes))
              /\ \A o \in GetItemOutcomes(i) :
                    o.status = "ok" =>
                        /\ o.slice_n \in Range(Len(volumes[o.patient + 1].v))
                        /\ RPos(slice_weights[o.patient + 1][o.slice_n + 1])
              /\ \A p \in Range(Len(volumes)) :
                    ValidWeights(p) =>
                        \A s \in Range(Len(volumes[p + 1].v)) :
                            RPos(slice_weights[p + 1][s + 1])
                                => Sample(p, s) \in GetItemOutcomes(i)
        /\ item # NoItem => item.out \in GetItemOutcomes(0)

\* a random access returned a slice of another patient than the one idx maps to
C5_Witness ==
    /\ pc = "ready" /\ random_sampling
    /\ item # NoItem
    /\ item.out.status = "ok"
    /\ item.out.patient # patient_slice_index[item.idx + 1][1]
    /\ item.idx > 0

\* C8: after construction every slice of every patient has a strictly positive
\* sampling weight, slices with an empty mask included.
C8_WeightsPositive ==
    pc = "ready" =>
        \A p \in 1 .. Len(slice_weights) :
            \A k \in 1 .. Len(slice_weights[p]) : RPos(slice_weights[p][k])

====
